---- MODULE Spec2Model ----
(***************************************************************************)
(* A model of src/src/main.rs of lyx0/rustlike: the tile-map generator     *)
(* (xy_idx, new_map), the entity store as main() fills it, the input       *)
(* handler (player_input, try_move_player), the LeftWalker system and the  *)
(* frame callback State::tick.                                             *)
(*                                                                         *)
(* Three specifications share the variables:                               *)
(*   Spec      the running game: main()'s entities, then tick, statement   *)
(*             by statement, once per frame, with any key of Keys;         *)
(*   SpecMap   new_map(), statement by statement, the dice showing any of  *)
(*             their faces;                                                *)
(*   SpecIdx   xy_idx applied to every coordinate pair of the grid.        *)
(* A specification leaves the variables of the other two at their initial  *)
(* values.                                                                 *)
(***************************************************************************)
EXTENDS Integers, Sequences, FiniteSets

VARIABLES
    positions,    \* storage<Position>: entity -> [x, y]
    renderables,  \* storage<Renderable>: entity -> [glyph, fg, bg]
    players,      \* storage<Player>: the entities carrying the tag
    leftMovers,   \* storage<LeftMover>: the entities carrying the tag
    screen,       \* the ctx.set calls since the latest ctx.cls, in order
    pc,           \* the statement of tick the frame is at
    frame,        \* number of ticks that have returned
    map,          \* new_map's `map`: index -> tile, on kept_cells
    mpc,          \* new_map's position
    mi,           \* new_map's loop variable (x, y or _i)
    roll,         \* new_map: the trial's locals <<x, y>>, <<0, 0>> out of scope
    qx, qy,       \* xy_idx: the arguments
    qidx,         \* xy_idx: the result, -1 before the call
    qmode         \* SpecIdx: "pair" (an argument pair) or "index" (a target index)

vars == <<positions, renderables, players, leftMovers, screen, pc, frame,
          map, mpc, mi, roll, qx, qy, qidx, qmode>>

gameVars == <<positions, renderables, players, leftMovers, screen, pc, frame>>
mapVars == <<map, mpc, mi, roll>>
idxVars == <<qx, qy, qidx, qmode>>

----------------------------------------------------------------------------
(* Program constants. *)

\* The grid width: the 80 of xy_idx, of new_map's loops and of simple80x50.
Width == 80
\* The grid height: the 50 of new_map's `80 * 50` and `0..50`.
Height == 50
\* The player's spawn cell, (40, 25) in new_map and in main.
SpawnX == 40
SpawnY == 25
\* The number of random trials of new_map.
NumTrials == 400
\* The sides of the two dice of a trial.
DiceSidesX == 79
DiceSidesY == 49
\* main(): the number of LeftMover entities, their spacing and their row.
NumLeftMovers == 10
LeftMoverStep == 7
LeftMoverRow == 20

(* Bounds of the model. *)

\* The host runs at most this many frames.  Forty moves take the player from
\* the spawn cell to the column x = 0, the forty-first being the clamped one;
\* in sixty-four frames every LeftMover has wrapped, the last from x = 63.
MaxFrames == 64

Min(a, b) == IF a < b THEN a ELSE b
Max(a, b) == IF a > b THEN a ELSE b

----------------------------------------------------------------------------
(* The tile map. *)

\* A slip in the row stride: rows one cell too short.
xy_idx_short_row(x, y) == (y * (Width - 1)) + x

\* xy_idx(x: i32, y: i32) -> usize.  The `as usize` casts are the identity on
\* the non-negative arguments every call site passes.
xy_idx(x, y) == (y * Width) + x

\* Dice numbered from zero.
roll_dice_zero_based(n, die_type) == 0 .. (n * die_type - 1)

\* rng.roll_dice(n, die_type): the sums n dice of die_type sides can show.
roll_dice(n, die_type) == n .. (n * die_type)

\* Every pair (x, y) the two dice of a trial can show.
dice_pairs == roll_dice(1, DiceSidesX) \X roll_dice(1, DiceSidesY)

\* The cells whose tiles the model keeps: the outer rows and columns of the
\* grid, the spawn cell and the cell after it in the vector, (41, 25), for
\* an inner cell the trials can wall.  new_map writes single cells and reads
\* none, so the tile of a kept cell never depends on a cell that is not
\* kept: `map` is the tile vector restricted to these cells.
kept_cells ==
    {i \in 0 .. (Width * Height - 1) :
        \/ i % Width \in {0, Width - 1}
        \/ i \div Width \in {0, Height - 1}
        \/ i = xy_idx(SpawnX, SpawnY)
        \/ i = xy_idx(SpawnX + 1, SpawnY)}

\* map[idx] = t: the write shows in the model when the cell is a kept one.
store(m, idx, t) == IF idx \in kept_cells THEN [m EXCEPT ![idx] = t] ELSE m

\* let mut map = vec![TileType::Floor; 80 * 50];
new_vec == [i \in kept_cells |-> "Floor"]

\* The body of `for x in 0..80`.
border_row_step(m, x) ==
    store(store(m, xy_idx(x, 0), "Wall"), xy_idx(x, Height - 1), "Wall")

\* The right border drawn one column short of the edge.
border_col_step_short(m, y) ==
    store(store(m, xy_idx(0, y), "Wall"), xy_idx(Width - 2, y), "Wall")

\* The body of `for y in 0..50`.
border_col_step(m, y) ==
    store(store(m, xy_idx(0, y), "Wall"), xy_idx(Width - 1, y), "Wall")

\* A trial without the spawn-cell test.
trial_step_unguarded(m, x, y) == store(m, xy_idx(x, y), "Wall")

\* The body of `for _i in 0..400`, the dice showing x and y.
trial_step(m, x, y) ==
    IF xy_idx(x, y) # xy_idx(SpawnX, SpawnY)
    THEN store(m, xy_idx(x, y), "Wall")
    ELSE m

GameIdle ==
    /\ positions = << >>
    /\ renderables = << >>
    /\ players = {}
    /\ leftMovers = {}
    /\ screen = << >>
    /\ pc = "main"
    /\ frame = 0

IdxIdle == qx = 0 /\ qy = 0 /\ qidx = -1 /\ qmode = "idle"
MapIdle == map = << >> /\ mpc = "idle" /\ mi = 0 /\ roll = <<0, 0>>

\* new_map after its first statement.
MapInit ==
    /\ map = new_vec
    /\ mpc = "rows"
    /\ mi = 0
    /\ roll = <<0, 0>>
    /\ GameIdle
    /\ IdxIdle

BorderRow ==
    /\ mpc = "rows"
    /\ IF mi < Width
       THEN /\ map' = border_row_step(map, mi)
            /\ mi' = mi + 1
            /\ mpc' = mpc
       ELSE /\ map' = map
            /\ mi' = 0
            /\ mpc' = "cols"
    /\ UNCHANGED <<roll, gameVars, idxVars>>

BorderCol ==
    /\ mpc = "cols"
    /\ IF mi < Height
       THEN /\ map' = border_col_step(map, mi)
            /\ mi' = mi + 1
            /\ mpc' = mpc
       ELSE /\ map' = map
            /\ mi' = 0
            /\ mpc' = "trials"
    /\ UNCHANGED <<roll, gameVars, idxVars>>

\* The body of one iteration of the trial loop, the two dice showing any of
\* their faces.
Trial ==
    /\ mpc = "trials"
    /\ mi < NumTrials
    /\ \E r \in dice_pairs :
        /\ map' = trial_step(map, r[1], r[2])
        /\ roll' = r
    /\ mi' = mi + 1
    /\ mpc' = "next"
    /\ UNCHANGED <<gameVars, idxVars>>

\* The closing brace of the loop body: x, y and idx go out of scope.
EndTrial ==
    /\ mpc = "next"
    /\ roll' = <<0, 0>>
    /\ mpc' = "trials"
    /\ UNCHANGED <<map, mi, gameVars, idxVars>>

\* The loop is over: new_map returns `map`.
MapReturn ==
    /\ mpc = "trials"
    /\ mi = NumTrials
    /\ mpc' = "done"
    /\ UNCHANGED <<map, mi, roll, gameVars, idxVars>>

MapNext == BorderRow \/ BorderCol \/ Trial \/ EndTrial \/ MapReturn
SpecMap == MapInit /\ [][MapNext]_vars

\* The cells of the outer rows and columns of the grid.
Perimeter ==
    ((0 .. 79) \X {0, 49}) \cup ({0, 79} \X (0 .. 49))

\* C1: at the head of every trial, and so when new_map returns, every cell
\* of the top and bottom rows (y = 0, y = 49) and of the side columns
\* (x = 0, x = 79) is Wall, whatever the trials rolled.
C1_PerimeterIsWall ==
    mpc \in {"trials", "done"} =>
        \A c \in Perimeter : map[c[2] * 80 + c[1]] = "Wall"

\* new_map has returned after 400 trials, one of which walled the inner
\* cell (41, 25), with the four corners of the grid Wall.
C1_Witness ==
    /\ mpc = "done"
    /\ mi = 400
    /\ map[41 + 25 * 80] = "Wall"
    /\ map[0] = "Wall"
    /\ map[79] = "Wall"
    /\ map[49 * 80] = "Wall"
    /\ map[49 * 80 + 79] = "Wall"

\* C2: throughout the trials, and so when new_map returns, the spawn cell
\* (40, 25) is Floor, also when trials rolled exactly (40, 25).
C2_SpawnIsFloor ==
    mpc \in {"trials", "next", "done"} => map[40 + 25 * 80] = "Floor"

\* The 400th trial has rolled the spawn cell itself, after a trial that
\* walled the cell next to it, and is over: new_map has only to return.
C2_Witness ==
    /\ mpc = "next"
    /\ mi = 400
    /\ roll = <<40, 25>>
    /\ map[40 + 25 * 80] = "Floor"
    /\ map[41 + 25 * 80] = "Wall"

----
(* xy_idx on its own. *)

\* Either an argument pair of the grid, not yet passed to xy_idx, or an index
\* of the tile vector to look for among the results.
IdxInit ==
    /\ \/ /\ qmode = "pair"
          /\ qx \in 0 .. (Width - 1)
          /\ qy \in 0 .. (Height - 1)
          /\ qidx = -1
       \/ /\ qmode = "index"
          /\ qx = 0
          /\ qy = 0
          /\ qidx \in 0 .. (Width * Height - 1)
    /\ GameIdle
    /\ MapIdle

CallXyIdx ==
    /\ qmode = "pair"
    /\ qidx = -1
    /\ qidx' = xy_idx(qx, qy)
    /\ UNCHANGED <<qx, qy, qmode, gameVars, mapVars>>

IdxNext == CallXyIdx
SpecIdx == IdxInit /\ [][IdxNext]_vars

\* C3: xy_idx(x, y) = y*80 + x maps the pairs 0 <= x < 80, 0 <= y < 50 one
\* to one onto the indices 0..3999: the result of a call lies in 0..3999, no
\* other pair of the grid has the same result, and every index of 0..3999 is
\* the result for some pair of the grid.
C3_XyIdxBijection ==
    /\ (qmode = "pair" /\ qidx # -1) =>
          /\ qidx = qy * 80 + qx
          /\ qidx \in 0 .. 3999
          /\ \A x \in 0 .. 79, y \in 0 .. 49 :
                xy_idx(x, y) = qidx => (x = qx /\ y = qy)
    /\ qmode = "index" =>
          \E x \in 0 .. 79, y \in 0 .. 49 : xy_idx(x, y) = qidx

\* xy_idx has been called on the last cell of the grid and returned the last
\* index.
C3_Witness ==
    /\ qmode = "pair"
    /\ qx = 79
    /\ qy = 49
    /\ qidx = 3999

----------------------------------------------------------------------------
(* The entity store as main() leaves it. *)

\* Entity ids in creation order: the player first, then the LeftMovers.
Entities == 0 .. NumLeftMovers
PlayerEntity == 0

\* VirtualKeyCode values of ctx.key; "None" is Option::None and "Escape"
\* stands for every key player_input has no arm for.
Keys == {"None", "H", "L", "K", "J", "Left", "Right", "Up", "Down", "Escape"}

\* (&a, &b).join(): the entities that have both components.
Join(a, b) == a \cap b

\* The LeftMovers placed from i = 1 instead of i = 0.
InitPositions_from_one ==
    [e \in Entities |->
        IF e = PlayerEntity
        THEN [x |-> SpawnX, y |-> SpawnY]
        ELSE [x |-> e * LeftMoverStep, y |-> LeftMoverRow]]

InitPositions ==
    [e \in Entities |->
        IF e = PlayerEntity
        THEN [x |-> SpawnX, y |-> SpawnY]
        ELSE [x |-> (e - 1) * LeftMoverStep, y |-> LeftMoverRow]]

InitRenderables ==
    [e \in Entities |->
        IF e = PlayerEntity
        THEN [glyph |-> "@", fg |-> "YELLOW", bg |-> "BLACK"]
        ELSE [glyph |-> "???", fg |-> "RED", bg |-> "BLACK"]]

----------------------------------------------------------------------------
(* The input handler. *)

\* The move applied without the min/max clamps.
try_move_player_unclamped(delta_x, delta_y, pos, plrs) ==
    [e \in DOMAIN pos |->
        IF e \in plrs \cap DOMAIN pos
        THEN [x |-> pos[e].x + delta_x, y |-> pos[e].y + delta_y]
        ELSE pos[e]]

try_move_player(delta_x, delta_y, pos, plrs) ==
    [e \in DOMAIN pos |->
        IF e \in Join(plrs, DOMAIN pos)
        THEN [x |-> Min(Width - 1, Max(0, pos[e].x + delta_x)),
              y |-> Min(Height - 1, Max(0, pos[e].y + delta_y))]
        ELSE pos[e]]

\* The K and J arms exchanged.
player_input_swapped(k, pos, plrs) ==
    CASE k = "None"  -> pos
      [] k = "H"     -> try_move_player(-1, 0, pos, plrs)
      [] k = "L"     -> try_move_player(1, 0, pos, plrs)
      [] k = "K"     -> try_move_player(0, 1, pos, plrs)
      [] k = "J"     -> try_move_player(0, -1, pos, plrs)
      [] k = "Left"  -> try_move_player(-1, 0, pos, plrs)
      [] k = "Right" -> try_move_player(1, 0, pos, plrs)
      [] k = "Up"    -> try_move_player(0, -1, pos, plrs)
      [] k = "Down"  -> try_move_player(0, 1, pos, plrs)
      [] OTHER       -> pos

player_input(k, pos, plrs) ==
    CASE k = "None"  -> pos
      [] k = "H"     -> try_move_player(-1, 0, pos, plrs)
      [] k = "L"     -> try_move_player(1, 0, pos, plrs)
      [] k = "K"     -> try_move_player(0, -1, pos, plrs)
      [] k = "J"     -> try_move_player(0, 1, pos, plrs)
      [] k = "Left"  -> try_move_player(-1, 0, pos, plrs)
      [] k = "Right" -> try_move_player(1, 0, pos, plrs)
      [] k = "Up"    -> try_move_player(0, -1, pos, plrs)
      [] k = "Down"  -> try_move_player(0, 1, pos, plrs)
      [] OTHER       -> pos

----------------------------------------------------------------------------
(* The movement system. *)

\* The wrap sent to the grid width, one cell past the last column.
LeftWalker_run_wrap_width(lefty, pos) ==
    [e \in DOMAIN pos |->
        IF e \in lefty \cap DOMAIN pos
        THEN [pos[e] EXCEPT !.x = IF pos[e].x - 1 < 0 THEN 80
                                  ELSE pos[e].x - 1]
        ELSE pos[e]]

\* A walker that stops at the left edge instead of wrapping.
LeftWalker_run_clamp(lefty, pos) ==
    [e \in DOMAIN pos |->
        IF e \in lefty \cap DOMAIN pos
        THEN [pos[e] EXCEPT !.x = IF pos[e].x - 1 < 0 THEN 0
                                  ELSE pos[e].x - 1]
        ELSE pos[e]]

LeftWalker_run(lefty, pos) ==
    [e \in DOMAIN pos |->
        IF e \in Join(lefty, DOMAIN pos)
        THEN [pos[e] EXCEPT !.x = IF pos[e].x - 1 < 0 THEN Width - 1
                                  ELSE pos[e].x - 1]
        ELSE pos[e]]

\* run_now, then maintain(): nothing is ever queued, so maintain changes nothing.
run_systems(lefty, pos) == LeftWalker_run(lefty, pos)

----------------------------------------------------------------------------
(* The frame callback. *)

\* A frame that does not clear the display.
cls_keep(scr) == scr

\* ctx.cls(): the frame's draw calls start afresh.
cls(scr) == << >>

\* ctx.set(x, y, fg, bg, glyph), recorded as one more draw call.
set(scr, x, y, fg, bg, glyph) ==
    Append(scr, [x |-> x, y |-> y, fg |-> fg, bg |-> bg, glyph |-> glyph])

\* The draw loop of tick: one ctx.set per entity of the join, in entity order.
RECURSIVE draw_pass(_, _, _, _)
draw_pass(ents, pos, rend, scr) ==
    IF ents = {} THEN scr
    ELSE LET e == CHOOSE m \in ents : \A o \in ents : m <= o
         IN draw_pass(ents \ {e}, pos, rend,
                      set(scr, pos[e].x, pos[e].y, rend[e].fg, rend[e].bg,
                          rend[e].glyph))

\* main() has built the entities; the host is about to call tick.
Init ==
    /\ positions = InitPositions
    /\ renderables = InitRenderables
    /\ players = {PlayerEntity}
    /\ leftMovers = Entities \ {PlayerEntity}
    /\ screen = << >>
    /\ pc = "cls"
    /\ frame = 0
    /\ MapIdle
    /\ IdxIdle

\* tick: ctx.cls();
Cls ==
    /\ pc = "cls"
    /\ frame < MaxFrames
    /\ screen' = cls(screen)
    /\ pc' = "input"
    /\ UNCHANGED <<positions, renderables, players, leftMovers, frame>>
    /\ UNCHANGED <<mapVars, idxVars>>

\* tick: player_input(self, ctx); ctx.key is the key the host captured for
\* this frame, any of Keys.
PlayerInput ==
    /\ pc = "input"
    /\ \E k \in Keys : positions' = player_input(k, positions, players)
    /\ pc' = "systems"
    /\ UNCHANGED <<renderables, players, leftMovers, screen, frame>>
    /\ UNCHANGED <<mapVars, idxVars>>

\* tick: self.run_systems();
RunSystems ==
    /\ pc = "systems"
    /\ positions' = run_systems(leftMovers, positions)
    /\ pc' = "draw"
    /\ UNCHANGED <<renderables, players, leftMovers, screen, frame>>
    /\ UNCHANGED <<mapVars, idxVars>>

\* tick: the draw loop, after which tick returns.
Draw ==
    /\ pc = "draw"
    /\ screen' = draw_pass(Join(DOMAIN positions, DOMAIN renderables),
                           positions, renderables, screen)
    /\ pc' = "cls"
    /\ frame' = frame + 1
    /\ UNCHANGED <<positions, renderables, players, leftMovers>>
    /\ UNCHANGED <<mapVars, idxVars>>

Next == Cls \/ PlayerInput \/ RunSystems \/ Draw
Spec == Init /\ [][Next]_vars

\* The four directions of the claims' key table, (0, 0) for any other key.
ClaimedDelta(k) ==
    CASE k \in {"H", "Left"}  -> <<-1, 0>>
      [] k \in {"L", "Right"} -> <<1, 0>>
      [] k \in {"K", "Up"}    -> <<0, -1>>
      [] k \in {"J", "Down"}  -> <<0, 1>>
      [] OTHER                -> <<0, 0>>

\* A coordinate held to lo..hi: the nearest bound when outside.
Clamped(v, lo, hi) == IF v < lo THEN lo ELSE IF v > hi THEN hi ELSE v

\* C4: one run of the LeftWalker system moves every entity with the
\* LeftMover tag from x to x - 1 when x >= 1 and to 79 when x = 0, its x
\* having been in 0..79, leaves its y alone, and leaves the Position of every
\* entity without the tag unchanged.
C4_LeftWalkerStep ==
    [][pc = "systems" =>
        \A e \in DOMAIN positions :
            IF e \in leftMovers
            THEN /\ positions[e].x \in 0 .. 79
                 /\ positions'[e].x = (IF positions[e].x >= 1
                                       THEN positions[e].x - 1 ELSE 79)
                 /\ positions'[e].y = positions[e].y
            ELSE positions'[e] = positions[e]]_vars

\* The system has run in the first frame: the walker that began at x = 0 is
\* at 79, the one that began at x = 7 is at 6, both still in row 20.
C4_Witness ==
    /\ pc = "draw"
    /\ frame = 0
    /\ positions[1] = [x |-> 79, y |-> 20]
    /\ positions[2] = [x |-> 6, y |-> 20]

\* C5: in every reachable state the Player's position is on the grid,
\* 0 <= x <= 79 and 0 <= y <= 49, and whatever key comes next the input
\* handler leaves it there: a move off the grid is clamped to the edge the
\* player is on, never wrapped to the opposite one.
C5_PlayerStaysInGrid ==
    \A e \in players :
        /\ positions[e].x \in 0 .. 79
        /\ positions[e].y \in 0 .. 49
        /\ \A k \in Keys :
            LET p == player_input(k, positions, players)[e]
                d == ClaimedDelta(k)
            IN /\ p.x = Clamped(positions[e].x + d[1], 0, 79)
               /\ p.y = Clamped(positions[e].y + d[2], 0, 49)
               /\ (positions[e].x = 0 /\ d[1] = -1) => p.x = 0
               /\ (positions[e].y = 0 /\ d[2] = -1) => p.y = 0

\* The forty-first frame's input handler has run and the player is at
\* (0, 25), in the column forty leftward moves reach: a forty-first leftward
\* key was clamped there.
C5_Witness ==
    /\ pc = "systems"
    /\ frame = 40
    /\ positions[PlayerEntity] = [x |-> 0, y |-> 25]

\* C6: main() leaves one Player at (40, 25) and ten LeftMovers at (0, 20),
\* (7, 20), ..., (63, 20); from there one tick with no key pressed leaves the
\* Player at (40, 25) and every LeftMover one cell to the left in row 20, the
\* one from x = 0 at x = 79; and whenever the first tick has returned with
\* the Player at (40, 25), the LeftMovers are there.
C6_FirstFrame ==
    /\ (frame = 0 /\ pc = "cls") =>
          /\ players = {0}
          /\ leftMovers = 1 .. 10
          /\ positions[0] = [x |-> 40, y |-> 25]
          /\ \A i \in 0 .. 9 : positions[i + 1] = [x |-> 7 * i, y |-> 20]
          /\ LET p == run_systems(leftMovers,
                                  player_input("None", positions, players))
             IN /\ p[0] = [x |-> 40, y |-> 25]
                /\ p[1] = [x |-> 79, y |-> 20]
                /\ \A i \in 1 .. 9 : p[i + 1] = [x |-> 7 * i - 1, y |-> 20]
    /\ (frame = 1 /\ pc = "cls" /\ positions[0] = [x |-> 40, y |-> 25]) =>
          /\ positions[1] = [x |-> 79, y |-> 20]
          /\ \A i \in 1 .. 9 : positions[i + 1] = [x |-> 7 * i - 1, y |-> 20]

\* The first tick has returned with the Player at (40, 25), as with no key
\* pressed, and has drawn the eleven entities.
C6_Witness ==
    /\ frame = 1
    /\ pc = "cls"
    /\ positions[0] = [x |-> 40, y |-> 25]
    /\ positions[1].x = 79
    /\ Len(screen) = 11

\* C7: whenever the input handler is about to run, for every key the frame
\* may bring it moves every Player entity by the one delta of that key,
\* (-1, 0) for H or Left, (+1, 0) for L or Right, (0, -1) for K or Up, (0, +1)
\* for J or Down, held to the grid; with any other key or none it changes no
\* Position; with any key it leaves the Position of every entity without the
\* Player tag unchanged.
C7_InputHandlerEffect ==
    pc = "input" =>
        \A k \in Keys :
            LET p == player_input(k, positions, players)
            IN /\ DOMAIN p = DOMAIN positions
               /\ \A e \in DOMAIN positions :
                    IF e \in players
                    THEN /\ p[e].x = Clamped(positions[e].x
                                             + ClaimedDelta(k)[1], 0, 79)
                         /\ p[e].y = Clamped(positions[e].y
                                             + ClaimedDelta(k)[2], 0, 49)
                    ELSE p[e] = positions[e]
               /\ k \notin {"H", "Left", "L", "Right", "K", "Up", "J", "Down"}
                    => p = positions

\* The first frame's input handler has moved the player up to (40, 24), as K
\* and Up do, and the LeftMovers are where main() put them.
C7_Witness ==
    /\ pc = "systems"
    /\ frame = 0
    /\ positions[PlayerEntity] = [x |-> 40, y |-> 24]
    /\ positions[1] = [x |-> 0, y |-> 20]
    /\ positions[10] = [x |-> 63, y |-> 20]

\* The draw call tick issues for entity e at the position it has now.
DrawCallOf(e, pos, rend) ==
    [x |-> pos[e].x, y |-> pos[e].y, fg |-> rend[e].fg, bg |-> rend[e].bg,
     glyph |-> rend[e].glyph]

\* C8: a tick goes clear, input, movement, draw, in that order.  The clear
\* leaves no draw call and touches no Position; input and movement issue no
\* draw call; the draw pass changes no Position and leaves exactly eleven
\* draw calls, one per entity with Position and Renderable, each at the
\* position the entity has after this frame's input and movement.
C8_TickOrder ==
    [][/\ pc = "cls" =>
            pc' = "input" /\ screen' = << >> /\ positions' = positions
       /\ pc = "input" => pc' = "systems" /\ screen' = << >>
       /\ pc = "systems" => pc' = "draw" /\ screen' = << >>
       /\ pc = "draw" =>
            /\ pc' = "cls"
            /\ frame' = frame + 1
            /\ positions' = positions
            /\ Len(screen') = 11
            /\ \A e \in DOMAIN positions \cap DOMAIN renderables :
                  Cardinality({i \in 1 .. Len(screen') :
                      screen'[i] = DrawCallOf(e, positions', renderables')})
                  = 1]_vars

\* The second tick has returned after two moves to the right: the player is
\* drawn at (42, 25), where it now is, and the walker from x = 7 at (5, 20).
C8_Witness ==
    /\ pc = "cls"
    /\ frame = 2
    /\ Len(screen) = 11
    /\ positions[0] = [x |-> 42, y |-> 25]
    /\ screen[1] = [x |-> 42, y |-> 25, fg |-> "YELLOW", bg |-> "BLACK",
                    glyph |-> "@"]
    /\ screen[3] = [x |-> 5, y |-> 20, fg |-> "RED", bg |-> "BLACK",
                    glyph |-> "???"]

\* C10: in every reachable state the ten LeftMovers are in row 20 with
\* 0 <= x <= 79 and no two of them are in the same cell.
C10_LeftMoversDistinct ==
    /\ Cardinality(leftMovers) = 10
    /\ \A e \in leftMovers :
          positions[e].y = 20 /\ positions[e].x \in 0 .. 79
    /\ \A e, f \in leftMovers : positions[e] = positions[f] => e = f

\* Sixty-four frames have run: every walker has wrapped, the one from x = 63
\* in this frame, and the one from x = 0 is at x = 16.
C10_Witness ==
    /\ pc = "cls"
    /\ frame = 64
    /\ positions[10].x = 79
    /\ positions[1].x = 16
    /\ positions[9].x = 72

====
